---- MODULE Spec2Model ----
(***************************************************************************)
(* Model of src/main.py: the NSE F&O lot-size subsystem (source discovery, *)
(* contract parser, 6-hour cache) and the /lot_size, /quote and            *)
(* /option_strikes handlers that use it.                                   *)
(*                                                                         *)
(* Python strings are modelled as sequences of one-character strings, so   *)
(* that strip(), upper(), lower(), capitalize(), replace() and the "in"    *)
(* substring test are computed, not assumed.  None is the model value      *)
(* NoneVal.                                                                *)
(***************************************************************************)
EXTENDS Integers, Sequences, FiniteSets, TLC

\* None where a string is expected: no string of one-character elements equals it
NoneVal == <<"<None>">>
\* None / a value where a number or a table is expected
None == <<>>
Some(x) == <<x>>

\* ------------------------------------------------------------------ bounds
MaxRows == 2
MaxLinks == 3
MaxRequests == 3
MaxTime == 12

\* ------------------------------------------------------------ str helpers
LowerChars == <<"a","b","c","d","e","f","g","h","i","j","k","l","m",
                "n","o","p","q","r","s","t","u","v","w","x","y","z">>
UpperChars == <<"A","B","C","D","E","F","G","H","I","J","K","L","M",
                "N","O","P","Q","R","S","T","U","V","W","X","Y","Z">>
DigitChars == <<"0","1","2","3","4","5","6","7","8","9">>

IsDigit(c) == \E i \in 1..10 : DigitChars[i] = c
DigitVal(c) == (CHOOSE i \in 1..10 : DigitChars[i] = c) - 1
IsSpace(c) == c = " "

UpperChar(c) ==
    IF \E i \in 1..26 : LowerChars[i] = c
    THEN UpperChars[CHOOSE i \in 1..26 : LowerChars[i] = c]
    ELSE c
LowerChar(c) ==
    IF \E i \in 1..26 : UpperChars[i] = c
    THEN LowerChars[CHOOSE i \in 1..26 : UpperChars[i] = c]
    ELSE c

\* str.upper() / str.lower()
Upper(s) == [i \in 1..Len(s) |-> UpperChar(s[i])]
Lower(s) == [i \in 1..Len(s) |-> LowerChar(s[i])]

\* str.capitalize(): first character upper-cased, the rest lower-cased
Capitalize(s) ==
    [i \in 1..Len(s) |-> IF i = 1 THEN UpperChar(s[i]) ELSE LowerChar(s[i])]

\* str.strip()
Strip(s) ==
    LET keep == {i \in 1..Len(s) : ~IsSpace(s[i])}
    IN  IF keep = {} THEN <<>>
        ELSE LET lo == CHOOSE i \in keep : \A j \in keep : i <= j
                 hi == CHOOSE i \in keep : \A j \in keep : j <= i
             IN  SubSeq(s, lo, hi)

\* sub in s
Contains(sub, s) ==
    \E i \in 0..(Len(s) - Len(sub)) : SubSeq(s, i + 1, i + Len(sub)) = sub

\* s.replace(",", "")
RemoveCommas(s) == SelectSeq(s, LAMBDA c : c # ",")

\* index of the first / last TRUE of a sequence of booleans (0: none)
FirstTrue(flags) ==
    IF \E i \in 1..Len(flags) : flags[i]
    THEN CHOOSE i \in 1..Len(flags) : flags[i] /\ \A j \in 1..(i - 1) : ~flags[j]
    ELSE 0
LastTrue(flags) ==
    IF \E i \in 1..Len(flags) : flags[i]
    THEN CHOOSE i \in 1..Len(flags) : flags[i] /\ \A j \in (i + 1)..Len(flags) : ~flags[j]
    ELSE 0

\* value of a sequence of digit characters
RECURSIVE DigitsValue(_)
DigitsValue(ds) ==
    IF ds = <<>> THEN 0
    ELSE 10 * DigitsValue(SubSeq(ds, 1, Len(ds) - 1)) + DigitVal(ds[Len(ds)])

\* float(s) for plain decimal literals: [sign] digits [. digits], at least
\* one digit.  Any other text over the model's alphabet (letters, commas,
\* inner blanks) raises ValueError.  The result keeps the sign, the integer
\* part and the fractional digits.
ParseFloat(s) ==
    LET neg    == Len(s) > 0 /\ s[1] = "-"
        signed == Len(s) > 0 /\ s[1] \in {"-", "+"}
        body   == IF signed THEN SubSeq(s, 2, Len(s)) ELSE s
        dot    == FirstTrue([i \in 1..Len(body) |-> body[i] = "."])
        whole  == IF dot = 0 THEN body ELSE SubSeq(body, 1, dot - 1)
        frac   == IF dot = 0 THEN <<>> ELSE SubSeq(body, dot + 1, Len(body))
        okay   == /\ \A i \in 1..Len(whole) : IsDigit(whole[i])
                  /\ \A i \in 1..Len(frac) : IsDigit(frac[i])
                  /\ Len(whole) + Len(frac) > 0
    IN  IF okay
        THEN [ok |-> TRUE, neg |-> neg, whole |-> DigitsValue(whole), frac |-> frac]
        ELSE [ok |-> FALSE, neg |-> FALSE, whole |-> 0, frac |-> <<>>]

\* int(x) of a float: truncation toward zero
IntOfFloat(f) == IF f.neg THEN 0 - f.whole ELSE f.whole

\* _normalize_symbol
NormalizeSymbol(sym) == Upper(Strip(IF sym = NoneVal THEN <<>> ELSE sym))

\* --------------------------------------------------------- contract parser
\* A contract archive as the parser sees it: whether the bytes are a gzip
\* stream, the header row (csv.DictReader.fieldnames) and the data rows, each
\* row holding one cell per header.
SymbolCandidates ==
    << <<"s","y","m","b","o","l">>,
       <<"u","n","d","e","r","l","y","i","n","g">>,
       <<"u","n","d","e","r","l","y","i","n","g","_","s","y","m","b","o","l">>,
       <<"t","r","a","d","i","n","g","s","y","m","b","o","l">>,
       <<"s","e","c","u","r","i","t","y">> >>
LotCandidates ==
    << <<"m","a","r","k","e","t"," ","l","o","t">>,
       <<"m","a","r","k","e","t","_","l","o","t">>,
       <<"l","o","t","_","s","i","z","e">>,
       <<"l","o","t","s","i","z","e">>,
       <<"q","t","y"," ","f","r","e","e","z","e"," ","l","o","t">>,
       <<"q","u","a","n","t","i","t","y"," ","f","r","e","e","z","e">> >>
InstrCandidates ==
    << <<"i","n","s","t","r","u","m","e","n","t">>,
       <<"i","n","s","t","r","u","m","e","n","t","t","y","p","e">>,
       <<"i","n","s","t"," ","t","y","p","e">>,
       <<"s","e","r","i","e","s">> >>

\* headers = [h.strip() for h in (reader.fieldnames or []) if h]
StrippedHeaders(fieldnames) ==
    LET kept == SelectSeq(fieldnames, LAMBDA h : h # <<>>)
    IN  [i \in 1..Len(kept) |-> Strip(kept[i])]

\* lower = {h.lower(): h for h in headers}; a later header with the same
\* lower-cased name replaces an earlier one
LowerHas(headers, key) == \E i \in 1..Len(headers) : Lower(headers[i]) = key
LowerGet(headers, key) ==
    headers[LastTrue([i \in 1..Len(headers) |-> Lower(headers[i]) = key])]

\* for candidate in [...]: if candidate in lower: col = lower[candidate]; break
ExactColumn(headers, candidates) ==
    LET k == FirstTrue([i \in 1..Len(candidates) |-> LowerHas(headers, candidates[i])])
    IN  IF k = 0 THEN NoneVal ELSE LowerGet(headers, candidates[k])

\* "symbol" in h.lower() or "underly" in h.lower()
FuzzySymbolHeader(h) ==
    \/ Contains(<<"s","y","m","b","o","l">>, Lower(h))
    \/ Contains(<<"u","n","d","e","r","l","y">>, Lower(h))

\* "lot" in hl and ("size" in hl or "market" in hl)
FuzzyLotHeader(h) ==
    /\ Contains(<<"l","o","t">>, Lower(h))
    /\ \/ Contains(<<"s","i","z","e">>, Lower(h))
       \/ Contains(<<"m","a","r","k","e","t">>, Lower(h))

\* the first header flagged by the fuzzy rule, tried only when the exact
\* match left the column unset ("if not symbol_col")
FuzzyColumn(headers, exact, flags) ==
    IF exact # NoneVal /\ exact # <<>> THEN exact
    ELSE LET k == FirstTrue(flags)
         IN  IF k = 0 THEN exact ELSE headers[k]

\* the column mapping resolved from the header row
DetectColumns(fieldnames) ==
    LET headers == StrippedHeaders(fieldnames)
    IN  [symbol_col |-> FuzzyColumn(headers, ExactColumn(headers, SymbolCandidates),
                           [i \in 1..Len(headers) |-> FuzzySymbolHeader(headers[i])]),
         lot_col    |-> FuzzyColumn(headers, ExactColumn(headers, LotCandidates),
                           [i \in 1..Len(headers) |-> FuzzyLotHeader(headers[i])]),
         instr_col  |-> ExactColumn(headers, InstrCandidates)]

\* "not symbol_col": None or the empty string
Unset(col) == col = NoneVal \/ col = <<>>

\* str(row.get(col, "")): the row dictionary is keyed by the header text as
\* it stands in the file; a repeated key keeps the last cell
RowGet(fieldnames, row, col) ==
    LET k == LastTrue([i \in 1..Len(fieldnames) |-> fieldnames[i] = col])
    IN  IF k = 0 THEN <<>> ELSE row[k]

\* inst and not any(x in inst for x in ["OPT", "FUT"])
NonDerivative(inst) ==
    /\ inst # <<>>
    /\ ~Contains(<<"O","P","T">>, inst)
    /\ ~Contains(<<"F","U","T">>, inst)

\* the loop body without the "if sym not in lot_map" guard: a later valid
\* row overwrites the stored lot
ProcessRowLastWins(fieldnames, cols, row, lot_map) ==
    LET sym     == NormalizeSymbol(RowGet(fieldnames, row, cols.symbol_col))
        inst    == Upper(RowGet(fieldnames, row, cols.instr_col))
        raw_lot == RemoveCommas(Strip(RowGet(fieldnames, row, cols.lot_col)))
        f       == ParseFloat(raw_lot)
    IN  IF sym = <<>> THEN lot_map
        ELSE IF ~Unset(cols.instr_col) /\ NonDerivative(inst) THEN lot_map
        ELSE IF raw_lot = <<>> THEN lot_map
        ELSE IF ~f.ok THEN lot_map
        ELSE [s \in DOMAIN lot_map \cup {sym} |->
                 IF s = sym THEN IntOfFloat(f) ELSE lot_map[s]]

\* one iteration of "for row in rows": the table after the row
ProcessRow(fieldnames, cols, row, lot_map) ==
    LET sym     == NormalizeSymbol(RowGet(fieldnames, row, cols.symbol_col))
        inst    == Upper(RowGet(fieldnames, row, cols.instr_col))
        raw_lot == RemoveCommas(Strip(RowGet(fieldnames, row, cols.lot_col)))
        f       == ParseFloat(raw_lot)
    IN  IF sym = <<>> THEN lot_map
        ELSE IF ~Unset(cols.instr_col) /\ NonDerivative(inst) THEN lot_map
        ELSE IF raw_lot = <<>> THEN lot_map
        ELSE IF ~f.ok THEN lot_map
        ELSE IF sym \in DOMAIN lot_map THEN lot_map
        ELSE [s \in DOMAIN lot_map \cup {sym} |->
                 IF s = sym THEN IntOfFloat(f) ELSE lot_map[s]]

RECURSIVE ProcessRows(_, _, _, _)
ProcessRows(fieldnames, cols, rows, lot_map) ==
    IF rows = <<>> THEN lot_map
    ELSE ProcessRows(fieldnames, cols, Tail(rows),
                     ProcessRow(fieldnames, cols, Head(rows), lot_map))

EmptyMap == [s \in {} |-> 0]
Raise(e) == [ok |-> FALSE, err |-> e, map |-> EmptyMap]
Return(m) == [ok |-> TRUE, err |-> "none", map |-> m]

\* the check "if not symbol_col or not lot_col" weakened to "and"
ColumnsMissingBoth(cols) == Unset(cols.symbol_col) /\ Unset(cols.lot_col)

\* if not symbol_col or not lot_col
ColumnsMissing(cols) == Unset(cols.symbol_col) \/ Unset(cols.lot_col)

\* _extract_lot_size_map_from_contract_csv
ExtractLotSizeMap(file) ==
    IF ~file.gz THEN Raise("gzip")
    ELSE IF file.rows = <<>> THEN Raise("no_rows")
    ELSE LET cols == DetectColumns(file.fieldnames)
         IN  IF ColumnsMissing(cols) THEN Raise("columns")
             ELSE LET lot_map == ProcessRows(file.fieldnames, cols, file.rows, EmptyMap)
                  IN  IF DOMAIN lot_map = {} THEN Raise("no_lots")
                      ELSE Return(lot_map)

\* -------------------------------------------------------- source discovery
\* The listing page is the sequence of file names it mentions, each a
\* prefix, the characters between prefix and extension, and an extension.
ContractPrefix == "NSE_FO_contract_"
ContractExt == ".csv.gz"

\* re.findall(r"NSE_FO_contract_\d{8}\.csv\.gz", html): the names that match
IsContractName(link) ==
    /\ link.prefix = ContractPrefix
    /\ Len(link.date) = 8
    /\ \A i \in 1..Len(link.date) : IsDigit(link.date[i])
    /\ link.ext = ContractExt
Matches(page) == SelectSeq(page, IsContractName)

\* string order of two matched names: they share prefix and extension, so it
\* is the order of the eight digits compared left to right
NameLeq(a, b) ==
    \/ a.date = b.date
    \/ \E i \in 1..8 :
         /\ \A j \in 1..(i - 1) : a.date[j] = b.date[j]
         /\ DigitVal(a.date[i]) < DigitVal(b.date[i])

\* matches[-1] of the unsorted list
LastMatch(matches) == matches[Len(matches)]

\* sorted(matches)[-1]
LatestName(matches) ==
    matches[CHOOSE i \in 1..Len(matches) : \A j \in 1..Len(matches) : NameLeq(matches[j], matches[i])]

NoUrl == [kind |-> "none", text |-> <<>>, name |-> NoneVal]
ForcedUrl(text) == [kind |-> "forced", text |-> text, name |-> NoneVal]
\* f"https://nsearchives.nseindia.com/content/fo/{latest_name}"
ArchiveUrl(link) == [kind |-> "archive", text |-> <<>>, name |-> link]

DiscRaise(e) == [ok |-> FALSE, err |-> e, url |-> NoUrl]
DiscReturn(u) == [ok |-> TRUE, err |-> "none", url |-> u]

\* _get_latest_nse_contract_url: forced is the text of NSE_FO_CONTRACT_URL,
\* http_ok whether the listing request succeeded, page what it returned
GetLatestContractUrl(forced, http_ok, page) ==
    IF Strip(forced) # <<>> THEN DiscReturn(ForcedUrl(Strip(forced)))
    ELSE IF ~http_ok THEN DiscRaise("listing")
    ELSE IF Matches(page) = <<>> THEN DiscRaise("no_match")
    ELSE DiscReturn(ArchiveUrl(LatestName(Matches(page))))

\* ------------------------------------- discovery inputs (bounded pages)
Contract(d) == [prefix |-> ContractPrefix, date |-> d, ext |-> ContractExt]
Link01012026 == Contract(<<"0","1","0","1","2","0","2","6">>)
Link15022026 == Contract(<<"1","5","0","2","2","0","2","6">>)
Link05012026 == Contract(<<"0","5","0","1","2","0","2","6">>)
LinkShortDate == Contract(<<"1","7","0","2","2","0","2">>)
LinkBhavcopy == [prefix |-> "BhavCopy_NSE_FO_", date |-> <<"1","6","0","2","2","0","2","6">>, ext |-> ".csv.zip"]
Links == {Link01012026, Link15022026, Link05012026, LinkShortDate, LinkBhavcopy}
ForcedTexts == { <<>>, <<" ">>, <<" ","u","r","l"," ">> }

\* ------------------------------------------------------- option strikes
\* A float with at most one fractional digit, in tenths (the strike and spot
\* prices of the model carry at most one)
FloatTenths(f) ==
    LET t == 10 * f.whole + (IF f.frac = <<>> THEN 0 ELSE DigitVal(f.frac[1]))
    IN  IF f.neg THEN 0 - t ELSE t

\* sorted(...) of a set of numbers: ascending, one entry per value
RECURSIVE SortedSeq(_)
SortedSeq(S) ==
    IF S = {} THEN <<>>
    ELSE LET m == CHOOSE x \in S : \A y \in S : x <= y
         IN  <<m>> \o SortedSeq(S \ {m})

\* r.get("strike_price") is not None and str(...).strip() != ""
HasStrike(r) == r.strike_price # NoneVal /\ Strip(r.strike_price) # <<>>

\* sorted({float(r.get("strike_price")) for r in rows if ...})
Strikes(rows) ==
    SortedSeq({ FloatTenths(ParseFloat(Strip(rows[i].strike_price))) :
                  i \in {k \in 1..Len(rows) : HasStrike(rows[k])} })

\* the first row whose spot_price is present and parses as a float
SpotPrice(rows) ==
    LET usable == [i \in 1..Len(rows) |->
                     /\ rows[i].spot_price # NoneVal
                     /\ Strip(rows[i].spot_price) # <<>>
                     /\ ParseFloat(Strip(rows[i].spot_price)).ok]
        k == FirstTrue(usable)
    IN  IF k = 0 THEN None
        ELSE Some(FloatTenths(ParseFloat(Strip(rows[k].spot_price))))

ValidRights == { <<"c","a","l","l">>, <<"p","u","t">> }

\* (req.right or "").strip().lower()
RightIn(right) == Lower(Strip(right))

\* the capitalized variant tried first
RightVariantsSwapped(right_in) == <<Capitalize(right_in), right_in>>

\* for right_val in [right_in, right_in.capitalize()]
RightVariants(right_in) == <<right_in, Capitalize(right_in)>>

\* the parameters of one breeze.get_option_chain_quotes call
ChainQuery(req, right_val) ==
    [stock_code    |-> Upper(Strip(req.stock_code)),
     exchange_code |-> Upper(Strip(req.exchange_code)),
     product_type  |-> "options",
     right         |-> right_val,
     expiry_date   |-> req.expiry_date]

NoResponse == [status |-> "none", keys |-> {}, right |-> NoneVal, strikes |-> <<>>,
               count |-> 0, spot_price |-> None, attempted |-> <<>>,
               exchange |-> NoneVal, symbol |-> NoneVal]
\* HTTPException(status_code=400, ...)
BadRequest == [NoResponse EXCEPT !.status = "http400"]
\* the collaborator raised: the exception leaves the handler
Unhandled == [NoResponse EXCEPT !.status = "http500"]
\* the "ok" body of option_strikes
StrikesOk(req, right_val, rows) ==
    [status |-> "ok",
     keys |-> {"status", "exchange", "symbol", "expiry_date", "right",
               "spot_price", "count", "strikes"},
     right |-> right_val, strikes |-> Strikes(rows), count |-> Len(Strikes(rows)),
     spot_price |-> SpotPrice(rows), attempted |-> <<>>,
     exchange |-> Upper(req.exchange_code), symbol |-> Upper(req.stock_code)]
\* the "error" body of option_strikes
StrikesError(attempted) ==
    [NoResponse EXCEPT !.status = "error",
                       !.keys = {"status", "error", "attempted_right_values"},
                       !.attempted = attempted]

\* ------------------------------------------------------- lot-size cache
\* ttl_seconds = 6 * 60 * 60, with the clock of the model counting hours
TtlHours == 6

\* the test of line 221 with "<=" for "<"
IsFreshInclusive(now, loaded_at) == now - loaded_at <= TtlHours

\* now - _nse_lot_cache["loaded_at"] < ttl_seconds
IsFresh(now, loaded_at) == now - loaded_at < TtlHours

\* lot_map.get(sym)
MapGet(lot_map, sym) == IF sym \in DOMAIN lot_map THEN Some(lot_map[sym]) ELSE None

\* ------------------------------------------------------------------ quote
\* The collaborator's row is a mapping from key to text; a key may be
\* missing and a value may be empty.  "a or b or c" takes the first value
\* that is present and not empty.
RowValue(r, key) == IF key \in DOMAIN r THEN r[key] ELSE NoneVal
Falsy(v) == v = NoneVal \/ v = <<>>
RECURSIVE FirstTruthy(_, _)
FirstTruthy(r, keys) ==
    IF Len(keys) = 1 THEN RowValue(r, keys[1])
    ELSE IF ~Falsy(RowValue(r, keys[1])) THEN RowValue(r, keys[1])
    ELSE FirstTruthy(r, Tail(keys))

\* lines 296-325: the flat quote built from the first row
BuildQuote(req, r) ==
    [exchange   |-> req.exchange_code,
     symbol     |-> req.stock_code,
     ltp        |-> FirstTruthy(r, <<"ltp", "LTP", "last_traded_price">>),
     open       |-> FirstTruthy(r, <<"open", "OPEN">>),
     high       |-> FirstTruthy(r, <<"high", "HIGH">>),
     low        |-> FirstTruthy(r, <<"low", "LOW">>),
     prev_close |-> FirstTruthy(r, <<"previous_close", "prev_close", "CLOSE">>),
     volume     |-> FirstTruthy(r, <<"volume", "VOLUME">>),
     ltt        |-> FirstTruthy(r, <<"ltt", "LTT", "last_traded_time">>),
     bid_price  |-> RowValue(r, "best_bid_price"),
     bid_qty    |-> RowValue(r, "best_bid_quantity"),
     ask_price  |-> RowValue(r, "best_offer_price"),
     ask_qty    |-> RowValue(r, "best_offer_quantity"),
     ltp_percent_change |-> RowValue(r, "ltp_percent_change"),
     upper_circuit |-> RowValue(r, "upper_circuit"),
     lower_circuit |-> RowValue(r, "lower_circuit"),
     total_qty_traded |-> RowValue(r, "total_quantity_traded"),
     spot_price |-> RowValue(r, "spot_price"),
     expiry_date |-> RowValue(r, "expiry_date"),
     strike_price |-> RowValue(r, "strike_price"),
     right |-> RowValue(r, "right")]

NoQuote == BuildQuote([exchange_code |-> NoneVal, stock_code |-> NoneVal], [k \in {} |-> NoneVal])

\* the lot-size enrichment attempted for every exchange
WantsLotSizeAlways(req) == TRUE

\* req.exchange_code.upper() == "NFO"
WantsLotSize(req) == Upper(req.exchange_code) = <<"N","F","O">>

\* ------------------------------------------- parser inputs (bounded files)
HSymbolUpper  == <<"S","Y","M","B","O","L">>
HSymbolMixed  == <<"S","y","m","b","o","l">>
HSymbolPadded == <<" ","s","y","m","b","o","l">>
HTckrSymbol   == <<"T","c","k","r","S","y","m","b","o","l">>
HName         == <<"N","a","m","e">>
HLotSize      == <<"L","O","T","_","S","I","Z","E">>
HMarketLot    == <<"M","a","r","k","e","t"," ","L","o","t">>
HBrdLotSize   == <<"B","r","d","L","o","t","S","i","z","e">>
HLots         == <<"L","o","t","s">>
HQtyFreezeLot == <<" ","Q","t","y"," ","F","r","e","e","z","e"," ","L","o","t">>
HQty          == <<"Q","t","y">>
HInstrument   == <<"I","n","s","t","r","u","m","e","n","t">>

\* header rows: exact names in several casings, fuzzy names, padded names,
\* names no rule recognises, with and without an instrument column
HeaderRows ==
    { <<HSymbolUpper, HLotSize>>,
      <<HLotSize, HSymbolMixed>>,
      <<HTckrSymbol, HBrdLotSize>>,
      <<HSymbolPadded, HLotSize>>,
      <<HSymbolUpper, HQtyFreezeLot>>,
      <<HName, HLotSize>>,
      <<HSymbolUpper, HLots>>,
      <<HName, HQty>>,
      <<HSymbolMixed, HInstrument, HMarketLot>> }

SymbolCells == { <<"T","C","S">>, <<" ","i","t"," ">>, <<>> }
LotCells    == { <<"1","7","5">>, <<" ","1",",","3","5","0",".","9">>,
                 <<"a","b","c">>, <<"0">> }
InstrCells  == { <<"o","p","t","s","t","k">>, <<"E","Q">> }
PlainCells  == { <<"x">> }

\* the cells a column of the given header may hold
CellsFor(h) ==
    IF FuzzySymbolHeader(h) THEN SymbolCells
    ELSE IF Contains(<<"l","o","t">>, Lower(h)) THEN LotCells
    ELSE IF h = HInstrument THEN InstrCells
    ELSE PlainCells

RowsFor(hdr) ==
    { row \in [1..Len(hdr) -> SymbolCells \cup LotCells \cup InstrCells \cup PlainCells] :
        \A i \in 1..Len(hdr) : row[i] \in CellsFor(hdr[i]) }

NotGzip == [gz |-> FALSE, fieldnames |-> <<>>, rows |-> <<>>]

\* --------------------------------- option-chain inputs (bounded requests)
RightTexts == { <<"c","a","l","l">>, <<" ","P","u","t"," ">>, <<"C","A","L","L">>,
                <<"b","o","t","h">>, <<>> }
StockTexts == { <<"t","c","s">>, <<" ","T","c","s">> }
ExchangeTexts == { <<"N","F","O">>, <<"n","f","o"," ">> }
ChainRow(strike, spot) == [strike_price |-> strike, spot_price |-> spot]
\* what the collaborator may answer under "Success"
ChainReplies ==
    { <<>>,
      << ChainRow(<<"1","0","0">>, NoneVal) >>,
      << ChainRow(<<"1","0","0",".","0">>, <<"n","a">>),
         ChainRow(<<"9","0",".","5">>, <<" ","9","5">>),
         ChainRow(<<" ">>, NoneVal),
         ChainRow(<<"1","0","0">>, <<"9","6">>) >> }

\* ------------------------------------- cache inputs (bounded environment)
Threads == {"w1", "w2"}

CellTCS == <<"T","C","S">>
FileA == [gz |-> TRUE, fieldnames |-> <<HSymbolUpper, HLotSize>>,
          rows |-> << <<CellTCS, <<"1","7","5">>>> >>]
FileB == [gz |-> TRUE, fieldnames |-> <<HSymbolUpper, HLotSize>>,
          rows |-> << <<CellTCS, <<"3","5","0">>>> >>]
FileNoRows == [gz |-> TRUE, fieldnames |-> <<HSymbolUpper, HLotSize>>, rows |-> <<>>]
FileNoColumns == [gz |-> TRUE, fieldnames |-> <<HName, HQty>>,
                  rows |-> << <<<<"x">>, <<"x">>>> >>]
FileNoLots == [gz |-> TRUE, fieldnames |-> <<HSymbolUpper, HLotSize>>,
               rows |-> << <<CellTCS, <<"a","b","c">>>> >>]

UrlA == ArchiveUrl(Link01012026)
UrlB == ArchiveUrl(Link15022026)

\* what a download of the URL may deliver: the dated archives are fixed
\* files, the override URL serves damaged ones
Published(url) ==
    IF url = UrlA THEN {FileA}
    ELSE IF url = UrlB THEN {FileB}
    ELSE {NotGzip, FileNoRows, FileNoColumns, FileNoLots}

\* what discovery may meet: the override, the listing request's fate, the page
Listings ==
    { [forced |-> <<>>, http_ok |-> TRUE, page |-> <<Link01012026>>],
      [forced |-> <<>>, http_ok |-> TRUE,
       page |-> <<Link01012026, Link15022026, Link05012026>>],
      [forced |-> <<>>, http_ok |-> TRUE, page |-> <<LinkBhavcopy>>],
      [forced |-> <<>>, http_ok |-> FALSE, page |-> <<>>],
      [forced |-> <<" ","u","r","l"," ">>, http_ok |-> FALSE, page |-> <<>>] }

LotSymbols == { <<"t","c","s">>, <<" ">> }

\* the outcomes discovery can have, and the outcome of parsing each file
UrlOutcomes == { GetLatestContractUrl(env.forced, env.http_ok, env.page) : env \in Listings }
ParseOutcome ==
    [f \in {FileA, FileB, NotGzip, FileNoRows, FileNoColumns, FileNoLots} |->
       ExtractLotSizeMap(f)]
QuoteExchanges == { <<"n","f","o">>, <<"N","S","E">> }
QuoteRow == [k \in {"LTP", "open", "best_bid_price"} |->
               IF k = "LTP" THEN <<"1","0","0">>
               ELSE IF k = "open" THEN <<>> ELSE <<"9","9">>]
QuoteReplies == { <<>>, <<QuoteRow>> }

\* ------------------------------------------------------------------ state
VARIABLES
    parser,    \* the parser run: its input file and its outcome
    disc,      \* the discovery run: configuration, listing page and outcome
    opt,       \* the option_strikes handler: request, loop position, response
    cache,     \* _nse_lot_cache: data, loaded_at, source_url
    clock,     \* time.time(), in hours
    th,        \* per worker thread: the request it serves and its locals
    started    \* requests accepted so far

vars == <<parser, disc, opt, cache, clock, th, started>>
cacheVars == <<cache, clock, th, started>>

Pending == [ok |-> FALSE, err |-> "pending", map |-> EmptyMap]
NoCols == [symbol_col |-> NoneVal, lot_col |-> NoneVal, instr_col |-> NoneVal]

\* ------------------------------------------ specification of the parser
ParserIdle == [file |-> NotGzip, out |-> Pending, cols |-> NoCols]
DiscPending == [ok |-> FALSE, err |-> "pending", url |-> NoUrl]
DiscIdle == [forced |-> <<>>, http_ok |-> FALSE, page |-> <<>>, out |-> DiscPending]

NoChainRequest == [right |-> <<>>, stock_code |-> <<>>, exchange_code |-> <<>>,
                   expiry_date |-> "30-Mar-2026"]
OptIdle == [req |-> NoChainRequest, pc |-> "idle", right_in |-> <<>>, attempted |-> <<>>,
            queries |-> <<>>, replies |-> <<>>, last_resp |-> None, resp |-> NoResponse]

\* _nse_lot_cache as the module creates it
EmptyCache == [data |-> None, loaded_at |-> 0, source_url |-> NoUrl]

NoRequest == [stock_code |-> <<>>, exchange_code |-> <<>>, rows |-> <<>>]
NoReply == [status |-> "none", symbol |-> <<>>, lot_size |-> None, source_url |-> NoUrl,
            error |-> "none", quote |-> NoQuote, raw |-> [k \in {} |-> NoneVal]]
IdleThread ==
    [pc |-> "idle", kind |-> "none", req |-> NoRequest, sym |-> <<>>, now |-> 0,
     decision |-> "none", url |-> NoUrl,
     lot_map |-> EmptyMap, lot |-> None, err |-> "none",
     n_disc |-> 0, n_fetch |-> 0, n_parse |-> 0, wrote |-> <<>>, resp |-> NoReply]
CacheIdle ==
    /\ cache = EmptyCache /\ clock = TtlHours /\ started = 0
    /\ th = [t \in Threads |-> IdleThread]

ParseFiles ==
    \/ parser = [file |-> NotGzip, out |-> Pending, cols |-> NoCols]
    \/ \E hdr \in HeaderRows :
          parser = [file |-> [gz |-> TRUE, fieldnames |-> hdr, rows |-> <<>>],
                    out |-> Pending, cols |-> NoCols]

ParseInit == ParseFiles /\ disc = DiscIdle /\ opt = OptIdle /\ CacheIdle

\* the archive under test grows by one data row (the input of the run)
ReadRow ==
    /\ parser.out = Pending
    /\ parser.file.gz
    /\ Len(parser.file.rows) < MaxRows
    /\ \E row \in RowsFor(parser.file.fieldnames) :
          parser' = [parser EXCEPT !.file.rows = Append(@, row)]
    /\ UNCHANGED <<disc, opt, cacheVars>>

\* _extract_lot_size_map_from_contract_csv(content_bytes) runs to its end;
\* cols keeps the column mapping the run resolved, when it got that far
ParseContract ==
    /\ parser.out = Pending
    /\ parser' = [parser EXCEPT
          !.out  = ExtractLotSizeMap(parser.file),
          !.cols = IF parser.file.gz /\ parser.file.rows # <<>>
                   THEN DetectColumns(parser.file.fieldnames) ELSE NoCols]
    /\ UNCHANGED <<disc, opt, cacheVars>>

ParseNext == ReadRow \/ ParseContract

SpecParse == ParseInit /\ [][ParseNext]_vars

\* ------------------------------------------------------ parser: claims
Parsed == parser.out # Pending
SeqToSet(q) == {q[i] : i \in 1..Len(q)}

\* a header, trimmed and lower-cased, is one of the listed names
ListedName(h, candidates) == Lower(Strip(h)) \in SeqToSet(candidates)
\* the fuzzy rules in the words of the specification
LooksLikeSymbol(h) ==
    Contains(<<"s","y","m","b","o","l">>, Lower(h)) \/ Contains(<<"u","n","d","e","r","l","y">>, Lower(h))
LooksLikeLot(h) ==
    /\ Contains(<<"l","o","t">>, Lower(h))
    /\ Contains(<<"s","i","z","e">>, Lower(h)) \/ Contains(<<"m","a","r","k","e","t">>, Lower(h))
SymbolRecognised(h) == ListedName(h, SymbolCandidates) \/ LooksLikeSymbol(h)
LotRecognised(h) == ListedName(h, LotCandidates) \/ LooksLikeLot(h)
FileHeaders == SeqToSet(parser.file.fieldnames)

\* the rows of the parsed file as the claims read them
RowSymbol(i) ==
    NormalizeSymbol(RowGet(parser.file.fieldnames, parser.file.rows[i], parser.cols.symbol_col))
RowLotText(i) ==
    RemoveCommas(Strip(RowGet(parser.file.fieldnames, parser.file.rows[i], parser.cols.lot_col)))
RowInstr(i) ==
    Upper(RowGet(parser.file.fieldnames, parser.file.rows[i], parser.cols.instr_col))
RowNumeric(i) == ParseFloat(RowLotText(i)).ok
RowLot(i) == IntOfFloat(ParseFloat(RowLotText(i)))
\* a row that contributes: non-empty symbol, a derivative (or no) instrument
\* type, a numeric lot
RowKept(i) ==
    /\ RowSymbol(i) # <<>>
    /\ Unset(parser.cols.instr_col) \/ RowInstr(i) = <<>>
         \/ Contains(<<"O","P","T">>, RowInstr(i)) \/ Contains(<<"F","U","T">>, RowInstr(i))
    /\ RowNumeric(i)
RowIdx == 1..Len(parser.file.rows)
ListedHeaders ==
    /\ \E h \in FileHeaders : ListedName(h, SymbolCandidates)
    /\ \E h \in FileHeaders : ListedName(h, LotCandidates)

\* C5 (as stated): with listed symbol and lot headers and every row carrying
\* a symbol and a numeric lot, each symbol of the table maps to the lot size
\* of the first row in file order that carries the symbol.
C5_FirstOccurrenceWins ==
    (Parsed /\ parser.out.ok /\ ListedHeaders
       /\ \A i \in RowIdx : RowSymbol(i) # <<>> /\ RowNumeric(i))
    => \A s \in DOMAIN parser.out.map :
         \E i \in RowIdx :
            /\ RowSymbol(i) = s
            /\ \A j \in 1..(i - 1) : RowSymbol(j) # s
            /\ parser.out.map[s] = RowLot(i)

\* C5 (amended): with listed symbol and lot headers, the table holds exactly
\* the symbols that have a contributing row (non-empty symbol, not filtered
\* out by the instrument type, numeric lot), and maps each to the lot size of
\* its first contributing row in file order; later rows never change it.
C5_FirstKeptRowWins ==
    (Parsed /\ parser.out.ok /\ ListedHeaders)
    => /\ DOMAIN parser.out.map = {RowSymbol(i) : i \in {k \in RowIdx : RowKept(k)}}
       /\ \A s \in DOMAIN parser.out.map :
            \E i \in RowIdx :
               /\ RowKept(i) /\ RowSymbol(i) = s
               /\ \A j \in 1..(i - 1) : ~(RowKept(j) /\ RowSymbol(j) = s)
               /\ parser.out.map[s] = RowLot(i)

\* C5 witness: a table built from a file in which a symbol has two
\* contributing rows with different lot sizes
C5_Witness ==
    /\ Parsed /\ parser.out.ok /\ ListedHeaders
    /\ \E i, j \in RowIdx :
         /\ i < j /\ RowKept(i) /\ RowKept(j)
         /\ RowSymbol(i) = RowSymbol(j) /\ RowLot(i) # RowLot(j)

\* C6: a file with at least one data row in which no header is recognised as
\* the symbol column, or none as the lot column, fails with the
\* column-detection error and yields no table; a table is only ever built
\* from a symbol column and a lot column that a rule recognised.
C6_UnresolvedColumnsFail ==
    (Parsed /\ parser.file.gz /\ parser.file.rows # <<>>)
    => /\ (~(\E h \in FileHeaders : SymbolRecognised(h))
             \/ ~(\E h \in FileHeaders : LotRecognised(h)))
          => (parser.out = Raise("columns"))
       /\ parser.out.ok
          => (SymbolRecognised(parser.cols.symbol_col) /\ LotRecognised(parser.cols.lot_col))

\* C6 witness: a file with data rows whose symbol header is recognised and
\* whose lot header is not, rejected with the column-detection error
C6_Witness ==
    /\ Parsed /\ parser.file.rows # <<>>
    /\ \E h \in FileHeaders : SymbolRecognised(h)
    /\ ~(\E h \in FileHeaders : LotRecognised(h))
    /\ parser.out = Raise("columns")

\* C7: every table the parser returns is well formed: each key is a
\* non-empty, trimmed, upper-cased symbol and each value a positive integer.
C7_TableWellFormed ==
    (Parsed /\ parser.out.ok)
    => \A s \in DOMAIN parser.out.map :
         /\ s # <<>>
         /\ s = Upper(Strip(s))
         /\ parser.out.map[s] > 0

\* ---------------------------------------- specification of the discovery
DiscInit ==
    /\ parser = ParserIdle /\ opt = OptIdle /\ CacheIdle
    /\ \E f \in ForcedTexts, h \in BOOLEAN :
         disc = [forced |-> f, http_ok |-> h, page |-> <<>>, out |-> DiscPending]

\* the listing page under test mentions one more file name
AddLink ==
    /\ disc.out = DiscPending
    /\ Len(disc.page) < MaxLinks
    /\ \E l \in Links : disc' = [disc EXCEPT !.page = Append(@, l)]
    /\ UNCHANGED <<parser, opt, cacheVars>>

\* _get_latest_nse_contract_url() runs to its end
Discover ==
    /\ disc.out = DiscPending
    /\ disc' = [disc EXCEPT !.out = GetLatestContractUrl(disc.forced, disc.http_ok, disc.page)]
    /\ UNCHANGED <<parser, opt, cacheVars>>

DiscNext == AddLink \/ Discover

SpecDisc == DiscInit /\ [][DiscNext]_vars

\* --------------------------------------------------- discovery: claims
Discovered == disc.out # DiscPending
PageNames == {disc.page[i] : i \in 1..Len(disc.page)}
PageMatches == {l \in PageNames : IsContractName(l)}

OptInit ==
    /\ parser = ParserIdle /\ disc = DiscIdle /\ CacheIdle
    /\ \E r \in RightTexts, sc \in StockTexts, ex \in ExchangeTexts :
         opt = [OptIdle EXCEPT !.pc = "validate",
                               !.req = [right |-> r, stock_code |-> sc, exchange_code |-> ex,
                                        expiry_date |-> "30-Mar-2026"]]

\* lines 352-357: normalise and validate the right, start the loop
ValidateRight ==
    /\ opt.pc = "validate"
    /\ opt' = IF RightIn(opt.req.right) \in ValidRights
              THEN [opt EXCEPT !.pc = "loop", !.right_in = RightIn(opt.req.right)]
              ELSE [opt EXCEPT !.pc = "done", !.right_in = RightIn(opt.req.right),
                               !.resp = BadRequest]
    /\ UNCHANGED <<parser, disc, cacheVars>>

\* one iteration of the loop: the next variant is recorded and queried; the
\* collaborator answers with rows (possibly none) or raises
QueryVariant ==
    /\ opt.pc = "loop"
    /\ Len(opt.attempted) < Len(RightVariants(opt.right_in))
    /\ LET right_val == RightVariants(opt.right_in)[Len(opt.attempted) + 1]
           asked     == [opt EXCEPT !.attempted = Append(@, right_val),
                                    !.queries = Append(@, ChainQuery(opt.req, right_val))]
       IN  \/ opt' = [asked EXCEPT !.pc = "done", !.resp = Unhandled]
           \/ \E rows \in ChainReplies :
                opt' = IF rows # <<>>
                       THEN [asked EXCEPT !.replies = Append(@, rows),
                                          !.last_resp = Some(rows),
                                          !.pc = "done",
                                          !.resp = StrikesOk(opt.req, right_val, rows)]
                       ELSE [asked EXCEPT !.replies = Append(@, rows),
                                          !.last_resp = Some(rows)]
    /\ UNCHANGED <<parser, disc, cacheVars>>

\* lines 401-405: the loop ended without rows
ReturnNoRows ==
    /\ opt.pc = "loop"
    /\ Len(opt.attempted) = Len(RightVariants(opt.right_in))
    /\ opt' = [opt EXCEPT !.pc = "done", !.resp = StrikesError(opt.attempted)]
    /\ UNCHANGED <<parser, disc, cacheVars>>

OptNext == ValidateRight \/ QueryVariant \/ ReturnNoRows

SpecOpt == OptInit /\ [][OptNext]_vars

\* ------------------------------------------------ option_strikes: claims
\* C8: for a valid right the lowercase variant is queried first and the
\* capitalized one only after the lowercase query returned no rows, at most
\* two queries in all; an "ok" response carries the first variant that
\* returned rows as "right" and no attempted_right_values; the response is
\* "error", listing both variants in the order tried, only when both
\* queries returned no rows.
C8_VariantOrder ==
    (opt.right_in \in ValidRights /\ opt.pc \in {"loop", "done"})
    => /\ Len(opt.queries) <= 2
       /\ Len(opt.queries) >= 1 => opt.queries[1].right = Lower(Strip(opt.req.right))
       /\ Len(opt.queries) = 2
          => /\ opt.queries[2].right = Capitalize(Lower(Strip(opt.req.right)))
             /\ opt.replies[1] = <<>>
       /\ opt.resp.status = "ok"
          => /\ opt.replies[Len(opt.replies)] # <<>>
             /\ \A i \in 1..(Len(opt.replies) - 1) : opt.replies[i] = <<>>
             /\ opt.resp.right = opt.queries[Len(opt.replies)].right
             /\ Len(opt.queries) = Len(opt.replies)
             /\ "attempted_right_values" \notin opt.resp.keys
       /\ opt.resp.status = "error"
          => /\ opt.replies = << <<>>, <<>> >>
             /\ opt.resp.attempted = << Lower(Strip(opt.req.right)),
                                        Capitalize(Lower(Strip(opt.req.right))) >>
       /\ (opt.pc = "done" /\ opt.replies = << <<>>, <<>> >>) => opt.resp.status = "error"

\* C8 witness: right "call", no rows for "call", rows for "Call": an "ok"
\* response with right "Call" and no attempted_right_values
C8_Witness ==
    /\ opt.pc = "done"
    /\ opt.req.right = <<"c","a","l","l">>
    /\ Len(opt.replies) = 2 /\ opt.replies[1] = <<>> /\ opt.replies[2] # <<>>
    /\ opt.resp.status = "ok"
    /\ opt.resp.right = <<"C","a","l","l">>
    /\ "attempted_right_values" \notin opt.resp.keys

\* ------------------- specification of the cache and its request handlers
\* Each worker thread serves one request at a time; a step is one access to
\* the shared cache or one outbound call, so that the threads interleave as
\* the interpreter lets them.  The clock starts a time-to-live after the
\* epoch: loaded_at = 0 is never within the window of a real clock.
Init ==
    /\ parser = ParserIdle /\ disc = DiscIdle /\ opt = OptIdle
    /\ CacheIdle

Others == <<parser, disc, opt>>

\* except Exception in lot_size_lookup (the error body) and in quote (the
\* quote is returned with lot_size None) -- with the stale table served
OnLookupFailureServeStale(me, e) ==
    LET lot == IF cache.data = None THEN None ELSE MapGet(cache.data[1], me.sym)
    IN  IF me.kind = "lot"
        THEN [me EXCEPT !.pc = "done", !.err = e, !.lot = lot,
                !.resp = [NoReply EXCEPT !.status = "ok", !.symbol = Upper(me.req.stock_code),
                                         !.lot_size = lot, !.source_url = cache.source_url]]
        ELSE [me EXCEPT !.pc = "done", !.err = e, !.lot = lot,
                !.resp = [me.resp EXCEPT !.status = "ok", !.lot_size = lot]]

\* except Exception in lot_size_lookup (lines 260-261: the error body) and
\* in quote (lines 331-341: the quote is returned with lot_size None)
OnLookupFailure(me, e) ==
    IF me.kind = "lot"
    THEN [me EXCEPT !.pc = "done", !.err = e,
            !.resp = [NoReply EXCEPT !.status = "error", !.error = e]]
    ELSE [me EXCEPT !.pc = "done", !.err = e, !.lot = None,
            !.resp = [me.resp EXCEPT !.status = "ok", !.lot_size = None]]

\* get_nse_lot_size up to the call of _load_nse_lot_sizes: an empty symbol
\* returns None without touching the cache; line 217 reads the clock
EnterLookup(me, symbol) ==
    IF NormalizeSymbol(symbol) = <<>>
    THEN [me EXCEPT !.pc = "respond", !.sym = <<>>, !.lot = None]
    ELSE [me EXCEPT !.pc = "check_data", !.sym = NormalizeSymbol(symbol), !.now = clock]

\* GET /lot_size/{symbol}, authenticated
LotSizeLookup(t) ==
    /\ th[t].pc = "idle" /\ started < MaxRequests
    /\ \E symbol \in LotSymbols :
         th' = [th EXCEPT ![t] =
                  EnterLookup([IdleThread EXCEPT !.kind = "lot", !.req.stock_code = symbol],
                              symbol)]
    /\ started' = started + 1
    /\ UNCHANGED <<Others, cache, clock>>

\* POST /quote, authenticated, up to the lot-size enrichment (lines 271-330)
Quote(t) ==
    /\ th[t].pc = "idle" /\ started < MaxRequests
    /\ \E ex \in QuoteExchanges, rows \in QuoteReplies :
         LET req == [stock_code |-> <<"t","c","s">>, exchange_code |-> ex, rows |-> rows]
             me  == [IdleThread EXCEPT !.kind = "quote", !.req = req]
         IN  th' = [th EXCEPT ![t] =
                IF rows = <<>>
                THEN [me EXCEPT !.pc = "done", !.resp = [NoReply EXCEPT !.status = "error"]]
                ELSE LET built == [me EXCEPT !.resp = [NoReply EXCEPT
                                        !.quote = BuildQuote(req, rows[1]), !.raw = rows[1]]]
                     IN  IF WantsLotSize(req)
                         THEN EnterLookup(built, req.stock_code)
                         ELSE [built EXCEPT !.pc = "respond", !.lot = None]]
    /\ started' = started + 1
    /\ UNCHANGED <<Others, cache, clock>>

\* get_nse_lot_size always calls _load_nse_lot_sizes(force_refresh=False)
ForceRefresh == FALSE

\* line 220: _nse_lot_cache["data"] is not None
CheckData(t) ==
    /\ th[t].pc = "check_data"
    /\ th' = [th EXCEPT ![t] =
                IF ~ForceRefresh /\ cache.data # None
                THEN [@ EXCEPT !.pc = "check_age"]
                ELSE [@ EXCEPT !.pc = "discover", !.decision = "refresh"]]
    /\ UNCHANGED <<Others, cache, clock, started>>

\* line 221: now - _nse_lot_cache["loaded_at"] < ttl_seconds
CheckAge(t) ==
    /\ th[t].pc = "check_age"
    /\ th' = [th EXCEPT ![t] =
                IF IsFresh(th[t].now, cache.loaded_at)
                THEN [@ EXCEPT !.pc = "return_cached", !.decision = "fresh"]
                ELSE [@ EXCEPT !.pc = "discover", !.decision = "refresh"]]
    /\ UNCHANGED <<Others, cache, clock, started>>

\* line 222: return _nse_lot_cache["data"], then lot_map.get(sym)
ReturnCached(t) ==
    /\ th[t].pc = "return_cached"
    /\ th' = [th EXCEPT ![t] = [@ EXCEPT !.pc = "respond", !.lot_map = cache.data[1],
                                         !.lot = MapGet(cache.data[1], th[t].sym)]]
    /\ UNCHANGED <<Others, cache, clock, started>>

\* line 224: url = _get_latest_nse_contract_url()
DiscoverUrl(t) ==
    /\ th[t].pc = "discover"
    /\ \E out \in UrlOutcomes :
         LET went == [th[t] EXCEPT !.n_disc = @ + 1]
         IN  th' = [th EXCEPT ![t] =
                      IF out.ok THEN [went EXCEPT !.pc = "fetch", !.url = out.url]
                      ELSE OnLookupFailure(went, out.err)]
    /\ UNCHANGED <<Others, cache, clock, started>>

\* lines 225-234: the priming request (its failure ignored), the download,
\* raise_for_status(), and the parse of the downloaded bytes
FetchAndParse(t) ==
    /\ th[t].pc = "fetch"
    /\ LET went == [th[t] EXCEPT !.n_fetch = @ + 1]
       IN  \/ th' = [th EXCEPT ![t] = OnLookupFailure(went, "download")]
           \/ \E content \in Published(th[t].url) :
                LET out    == ParseOutcome[content]
                    parsed == [went EXCEPT !.n_parse = @ + 1]
                IN  th' = [th EXCEPT ![t] =
                             IF out.ok
                             THEN [parsed EXCEPT !.pc = "store_data", !.lot_map = out.map]
                             ELSE OnLookupFailure(parsed, out.err)]
    /\ UNCHANGED <<Others, cache, clock, started>>

\* line 236: _nse_lot_cache["data"] = lot_map
StoreData(t) ==
    /\ th[t].pc = "store_data"
    /\ cache' = [cache EXCEPT !.data = Some(th[t].lot_map)]
    /\ th' = [th EXCEPT ![t] = [@ EXCEPT !.pc = "store_loaded_at", !.wrote = Append(@, "data")]]
    /\ UNCHANGED <<Others, clock, started>>

\* line 237: _nse_lot_cache["loaded_at"] = now
StoreLoadedAt(t) ==
    /\ th[t].pc = "store_loaded_at"
    /\ cache' = [cache EXCEPT !.loaded_at = th[t].now]
    /\ th' = [th EXCEPT ![t] = [@ EXCEPT !.pc = "store_url", !.wrote = Append(@, "loaded_at")]]
    /\ UNCHANGED <<Others, clock, started>>

\* lines 238-239: _nse_lot_cache["source_url"] = url; return lot_map, then
\* lot_map.get(sym)
StoreSourceUrl(t) ==
    /\ th[t].pc = "store_url"
    /\ cache' = [cache EXCEPT !.source_url = th[t].url]
    /\ th' = [th EXCEPT ![t] = [@ EXCEPT !.pc = "respond", !.wrote = Append(@, "source_url"),
                                         !.lot = MapGet(th[t].lot_map, th[t].sym)]]
    /\ UNCHANGED <<Others, clock, started>>

\* lines 254-259 (the "ok" body, reading source_url from the cache) and
\* lines 335-341 (the quote with its lot size)
Respond(t) ==
    /\ th[t].pc = "respond"
    /\ th' = [th EXCEPT ![t] =
                IF th[t].kind = "lot"
                THEN [@ EXCEPT !.pc = "done",
                        !.resp = [NoReply EXCEPT !.status = "ok",
                                    !.symbol = Upper(th[t].req.stock_code),
                                    !.lot_size = th[t].lot,
                                    !.source_url = cache.source_url]]
                ELSE [@ EXCEPT !.pc = "done",
                        !.resp = [@ EXCEPT !.status = "ok", !.lot_size = th[t].lot]]]
    /\ UNCHANGED <<Others, cache, clock, started>>

\* the response is sent and the worker is free again
Finish(t) ==
    /\ th[t].pc = "done"
    /\ th' = [th EXCEPT ![t] = IdleThread]
    /\ UNCHANGED <<Others, cache, clock, started>>

\* time passes, half a time-to-live at a time
Tick ==
    /\ clock + (TtlHours \div 2) <= MaxTime
    /\ clock' = clock + (TtlHours \div 2)
    /\ UNCHANGED <<Others, cache, th, started>>

Next ==
    \/ \E t \in Threads :
         \/ LotSizeLookup(t) \/ Quote(t)
         \/ CheckData(t) \/ CheckAge(t) \/ ReturnCached(t)
         \/ DiscoverUrl(t) \/ FetchAndParse(t)
         \/ StoreData(t) \/ StoreLoadedAt(t) \/ StoreSourceUrl(t)
         \/ Respond(t) \/ Finish(t)
    \/ Tick

Spec == Init /\ [][Next]_vars

\* ------------------------------------------------------- cache: claims
Answered(t) == th[t].pc \in {"respond", "done"}
\* the file a source URL names, parsed
TableOfUrl(url) == { ParseOutcome[f].map : f \in {g \in Published(url) : ParseOutcome[g].ok} }

\* C1: at most one refresh is in flight at any time: no two threads have a
\* download of the contract file outstanding together.
C1_SingleRefreshInFlight ==
    Cardinality({t \in Threads : th[t].pc = "fetch"}) <= 1

\* C2, the states: a lookup that found the table fresh issues no request and
\* writes nothing; a lookup that found the cache empty or expired runs
\* discovery, download and parse once each and, having succeeded, has
\* written table, timestamp and source URL, in that order, before it answers
\* from the table it parsed.
C2_State ==
    \A t \in Threads :
       /\ th[t].n_disc <= 1 /\ th[t].n_fetch <= 1 /\ th[t].n_parse <= 1
       /\ th[t].decision = "fresh"
          => /\ th[t].n_disc = 0 /\ th[t].n_fetch = 0 /\ th[t].n_parse = 0
             /\ th[t].wrote = <<>>
             /\ Answered(t) => th[t].lot = MapGet(th[t].lot_map, th[t].sym)
       /\ (th[t].decision = "refresh" /\ Answered(t) /\ th[t].err = "none")
          => /\ th[t].n_disc = 1 /\ th[t].n_fetch = 1 /\ th[t].n_parse = 1
             /\ th[t].wrote = <<"data", "loaded_at", "source_url">>
             /\ th[t].lot_map \in TableOfUrl(th[t].url)
             /\ th[t].lot = MapGet(th[t].lot_map, th[t].sym)

\* C2, the steps: the table is judged fresh only when it is present and
\* younger than six hours, and a refresh is decided only when it is absent
\* or not; a lookup that judged it fresh takes the stored table as its
\* answer and never changes the cache; each write of a refresh stores the
\* value the refresh obtained.
C2_Step ==
    \A t \in Threads :
       /\ (th[t].decision = "none" /\ th'[t].decision = "fresh")
          => /\ cache.data # None
             /\ th[t].now - cache.loaded_at < 6
       /\ (th[t].decision = "none" /\ th'[t].decision = "refresh")
          => \/ cache.data = None
             \/ th[t].now - cache.loaded_at >= 6
       /\ (th[t].decision = "fresh" /\ th'[t] # th[t])
          => /\ cache' = cache
             /\ th[t].pc = "return_cached" => th'[t].lot_map = cache.data[1]
       /\ (th[t].pc = "store_url" /\ th'[t] # th[t])
          => /\ cache'.source_url = th[t].url
             /\ cache'.data = cache.data /\ cache'.loaded_at = cache.loaded_at
       /\ (th[t].pc = "store_loaded_at" /\ th'[t] # th[t])
          => cache'.loaded_at = th[t].now
       /\ (th[t].pc = "store_data" /\ th'[t] # th[t])
          => cache'.data = Some(th[t].lot_map)

\* C2: a lookup within the freshness window issues no request, answers from
\* the stored table and leaves the cache as it is; a lookup on an empty or
\* expired cache performs exactly one discovery, download and parse and, on
\* success, replaces table, timestamp and source URL before answering from
\* the new table.
C2_FreshHitOrOneRefresh == []C2_State /\ [][C2_Step]_vars

\* C2 witness: one thread has answered from the stored table within the
\* window while the other has answered after a successful refresh
C2_Witness ==
    \E t, u \in Threads :
       /\ th[t].pc = "done" /\ th[t].decision = "fresh" /\ th[t].resp.lot_size = Some(175)
       /\ th[u].pc = "done" /\ th[u].decision = "refresh" /\ th[u].err = "none"
       /\ th[u].resp.status = "ok"

\* C3, the states: a lookup whose refresh failed has ended with the failure
\* as its outcome (the error body of /lot_size, a null lot size in /quote),
\* after at most one discovery, one download and one parse, with no value
\* taken from the table and nothing written to the cache.
C3_State ==
    \A t \in Threads :
       th[t].err # "none"
       => /\ th[t].pc = "done"
          /\ th[t].n_disc <= 1 /\ th[t].n_fetch <= 1 /\ th[t].n_parse <= 1
          /\ th[t].wrote = <<>>
          /\ th[t].resp.lot_size = None
          /\ th[t].kind = "lot"
             => (th[t].resp.status = "error" /\ th[t].resp.error = th[t].err)

\* C3, the steps: the step on which a refresh fails leaves the cache entry
\* exactly as it was.
C3_Step ==
    \A t \in Threads :
       (th[t].err = "none" /\ th'[t].err # "none") => cache' = cache

\* C3: a failed refresh propagates to the caller without retry and without
\* falling back to the stale table, and leaves table, loaded_at and
\* source_url untouched.
C3_FailurePropagates == []C3_State /\ [][C3_Step]_vars

\* C3 witness: a /lot_size lookup that failed while an expired table was in
\* the cache, answered with the error body
C3_Witness ==
    \E t \in Threads :
       /\ th[t].kind = "lot" /\ th[t].pc = "done" /\ th[t].err = "columns"
       /\ cache.data # None /\ th[t].now - cache.loaded_at >= 6
       /\ th[t].resp.status = "error"

\* the thread has read, or is about to read, the lot-size cache
Consulting(t) ==
    \/ th[t].decision # "none"
    \/ th[t].pc \in {"check_data", "check_age", "return_cached", "discover", "fetch",
                     "store_data", "store_loaded_at", "store_url"}

\* C4: a quote request for which the collaborator returned a row is answered
\* "ok" with the quote built from the request and that row, whatever became
\* of the lot-size lookup; when the lookup failed the lot size is null; and
\* the cache is consulted only for exchange NFO.
C4_QuoteSurvivesLookup ==
    \A t \in Threads :
       th[t].kind = "quote"
       => /\ (th[t].pc = "done" /\ th[t].req.rows # <<>>)
             => /\ th[t].resp.status = "ok"
                /\ th[t].resp.quote.exchange = th[t].req.exchange_code
                /\ th[t].resp.quote.symbol = th[t].req.stock_code
                /\ th[t].resp.quote.ltp = th[t].req.rows[1]["LTP"]
                /\ th[t].resp.quote.open = NoneVal
                /\ th[t].resp.quote.bid_price = th[t].req.rows[1]["best_bid_price"]
                /\ th[t].resp.raw = th[t].req.rows[1]
                /\ th[t].err # "none" => th[t].resp.lot_size = None
          /\ Consulting(t) => Upper(th[t].req.exchange_code) = <<"N","F","O">>

\* C4 witness: an NFO quote whose lot-size refresh failed, answered "ok"
\* with a null lot size
C4_Witness ==
    \E t \in Threads :
       /\ th[t].kind = "quote" /\ th[t].pc = "done"
       /\ Upper(th[t].req.exchange_code) = <<"N","F","O">>
       /\ th[t].err = "listing"
       /\ th[t].resp.status = "ok" /\ th[t].resp.lot_size = None

\* C10: every successful /lot_size response reports the source_url of the
\* file from which the returned lot size was read.
C10_ResponseMatchesSource ==
    \A t \in Threads :
       (th[t].kind = "lot" /\ th[t].pc = "done" /\ th[t].resp.status = "ok"
          /\ th[t].resp.lot_size # None)
       => \E m \in TableOfUrl(th[t].resp.source_url) :
             MapGet(m, th[t].sym) = th[t].resp.lot_size

====
